---- MODULE Spec2Model ----
(***************************************************************************)
(* A model of the float-bits crate: floats stored as raw bit patterns.     *)
(*                                                                         *)
(* A value of the unsigned storage type ($u_ty) is a sequence of bits,     *)
(* most significant bit first, so that the 32-, 64- and 128-bit formats    *)
(* keep their full width.  Every mask and constant is derived from         *)
(* (BITS, EXP_BITS) by the shifts and logical operations of define_tail!.  *)
(***************************************************************************)
EXTENDS Integers, Sequences, FiniteSets, TLC

\* fmt:  the format (type) the call is made on
\* args: the operands of the call, self first
\* op:   the operation that has run ("none" before the call)
\* res:  what the operation returned
VARIABLES fmt, args, op, res

vars == <<fmt, args, op, res>>

(***************************************************************************)
(* The five instantiations of define! in lib.rs.                           *)
(***************************************************************************)
Formats == {"BF16", "F16", "F32", "F64", "F128"}

BITS(f) ==
    CASE f = "BF16" -> 16
      [] f = "F16"  -> 16
      [] f = "F32"  -> 32
      [] f = "F64"  -> 64
      [] f = "F128" -> 128

EXP_BITS(f) ==
    CASE f = "BF16" -> 8
      [] f = "F16"  -> 5
      [] f = "F32"  -> 8
      [] f = "F64"  -> 11
      [] f = "F128" -> 15

MANTISSA_BITS(f) == BITS(f) - EXP_BITS(f) - 1

(***************************************************************************)
(* Unsigned machine words and the primitives the macro uses on them.       *)
(***************************************************************************)
Bit == {0, 1}

\* <$u_ty>::MAX
UMax(f) == [i \in 1..BITS(f) |-> 1]

\* An integer literal (0 or 1 in the source) of type $u_ty.
Lit(f, n) == [i \in 1..BITS(f) |-> IF i = BITS(f) THEN n % 2 ELSE 0]

\* x >> k  (logical shift right on an unsigned word)
Shr(x, k) == [i \in 1..Len(x) |-> IF i <= k THEN 0 ELSE x[i - k]]

\* x << k
Shl(x, k) == [i \in 1..Len(x) |-> IF i + k > Len(x) THEN 0 ELSE x[i + k]]

\* !x
BitNot(x) == [i \in 1..Len(x) |-> 1 - x[i]]

\* x & y
BitAnd(x, y) == [i \in 1..Len(x) |-> IF x[i] = 1 /\ y[i] = 1 THEN 1 ELSE 0]

\* x | y
BitOr(x, y) == [i \in 1..Len(x) |-> IF x[i] = 1 \/ y[i] = 1 THEN 1 ELSE 0]

\* x ^ y
BitXor(x, y) == [i \in 1..Len(x) |-> IF x[i] # y[i] THEN 1 ELSE 0]

\* Unsigned x < y on words of equal width: the most significant bit in
\* which they differ decides.
RECURSIVE ULtFrom(_, _, _)
ULtFrom(x, y, i) ==
    IF i > Len(x) THEN FALSE
    ELSE IF x[i] # y[i] THEN x[i] < y[i]
    ELSE ULtFrom(x, y, i + 1)

ULt(x, y) == ULtFrom(x, y, 1)

\* `bits as $s_ty`: the word read as a two's-complement integer, kept as
\* its top digit (weight -2^(n-1)) and the unsigned rest.
\* The cast left out: the top bit keeps its positive weight.
AsSigned_unsigned(x) == [top |-> x[1], rest |-> SubSeq(x, 2, Len(x))]

AsSigned(x) == [top |-> 0 - x[1], rest |-> SubSeq(x, 2, Len(x))]

\* Signed p < q.
SLt(p, q) == \/ p.top < q.top
             \/ p.top = q.top /\ ULt(p.rest, q.rest)

(***************************************************************************)
(* Masks (define_tail!).                                                   *)
(***************************************************************************)
ABS_MASK(f) == Shr(UMax(f), 1)

SIGN_MASK(f) == BitNot(ABS_MASK(f))

\* MANT_MASK shifted one place too far: the top mantissa bit is lost.
MANT_MASK_off_by_one(f) == Shr(ABS_MASK(f), EXP_BITS(f) + 1)

MANT_MASK(f) == Shr(ABS_MASK(f), EXP_BITS(f))

EXP_MASK(f) == BitAnd(ABS_MASK(f), BitNot(MANT_MASK(f)))

\* EXP_ZERO without the mask: the shift carries into the mantissa.
EXP_ZERO_unmasked(f) == Shr(EXP_MASK(f), 1)

EXP_ZERO(f) == BitAnd(EXP_MASK(f), Shr(EXP_MASK(f), 1))

\* EXP_MAX without the mask: the shift carries into the sign bit.
EXP_MAX_unmasked(f) == Shl(EXP_MASK(f), 1)

EXP_MAX(f) == BitAnd(EXP_MASK(f), Shl(EXP_MASK(f), 1))

EXP_MIN(f) == BitAnd(EXP_MASK(f), BitNot(EXP_MAX(f)))

QUIET_MASK(f) == BitAnd(MANT_MASK(f), BitNot(Shr(MANT_MASK(f), 1)))

\* The masks are `const` items: each is evaluated once per type, and the
\* methods below read the evaluated value.
Masks ==
    [f \in Formats |->
        [ABS_MASK  |-> ABS_MASK(f),
         SIGN_MASK |-> SIGN_MASK(f),
         EXP_MASK  |-> EXP_MASK(f),
         MANT_MASK |-> MANT_MASK(f)]]

(***************************************************************************)
(* Constructors, sign operations and the named constants.                  *)
(***************************************************************************)
from_bits(bits) == bits

to_bits(v) == v

\* neg that sets the sign bit instead of flipping it.
neg_set_sign(f, v) == BitOr(v, Masks[f].SIGN_MASK)

neg(f, v) == BitXor(v, Masks[f].SIGN_MASK)

abs(f, v) == BitAnd(v, Masks[f].ABS_MASK)

\* copysign that does not clear the sign of self first.
copysign_keep_sign(f, v, sign) ==
    LET sign_bit == BitAnd(sign, Masks[f].SIGN_MASK)
    IN  BitOr(v, sign_bit)

copysign(f, v, sign) ==
    LET self_bits == BitAnd(v, Masks[f].ABS_MASK)
        sign_bit  == BitAnd(sign, Masks[f].SIGN_MASK)
    IN  BitOr(self_bits, sign_bit)

ZERO(f) == from_bits(Lit(f, 0))

ONE(f) == from_bits(EXP_ZERO(f))

INFINITY(f) == from_bits(Masks[f].EXP_MASK)

SNAN(f) == from_bits(BitOr(Masks[f].EXP_MASK, Lit(f, 1)))

QNAN(f) == from_bits(BitOr(BitOr(Masks[f].EXP_MASK, QUIET_MASK(f)), Lit(f, 1)))

NEG_ZERO(f) == neg(f, ZERO(f))

NEG_ONE(f) == neg(f, ONE(f))

NEG_INFINITY(f) == neg(f, INFINITY(f))

NEG_SNAN(f) == neg(f, SNAN(f))

NEG_QNAN(f) == neg(f, QNAN(f))

MAX(f) == from_bits(BitOr(EXP_MAX(f), Masks[f].MANT_MASK))

MIN(f) == neg(f, MAX(f))

MIN_POSITIVE(f) == from_bits(EXP_MIN(f))

MAX_NEGATIVE(f) == neg(f, MIN_POSITIVE(f))

AllZeroSeq(s) == \A i \in 1..Len(s) : s[i] = 0

AllOnesSeq(s) == \A i \in 1..Len(s) : s[i] = 1

(***************************************************************************)
(* The named constants by name; like the masks they are `const` items,     *)
(* evaluated once per type.                                                *)
(***************************************************************************)
ConstNames ==
    {"ZERO", "ONE", "INFINITY", "SNAN", "QNAN", "MAX", "MIN_POSITIVE",
     "NEG_ZERO", "NEG_ONE", "NEG_INFINITY", "NEG_SNAN", "NEG_QNAN", "MIN",
     "MAX_NEGATIVE"}

Const(f, n) ==
    CASE n = "ZERO"         -> ZERO(f)
      [] n = "ONE"          -> ONE(f)
      [] n = "INFINITY"     -> INFINITY(f)
      [] n = "SNAN"         -> SNAN(f)
      [] n = "QNAN"         -> QNAN(f)
      [] n = "MAX"          -> MAX(f)
      [] n = "MIN_POSITIVE" -> MIN_POSITIVE(f)
      [] n = "NEG_ZERO"     -> NEG_ZERO(f)
      [] n = "NEG_ONE"      -> NEG_ONE(f)
      [] n = "NEG_INFINITY" -> NEG_INFINITY(f)
      [] n = "NEG_SNAN"     -> NEG_SNAN(f)
      [] n = "NEG_QNAN"     -> NEG_QNAN(f)
      [] n = "MIN"          -> MIN(f)
      [] n = "MAX_NEGATIVE" -> MAX_NEGATIVE(f)

Named == [f \in Formats |-> [n \in ConstNames |-> Const(f, n)]]

(***************************************************************************)
(* Sign queries and classification.                                        *)
(***************************************************************************)
is_sign_positive(f, v) == BitAnd(v, Masks[f].SIGN_MASK) = Lit(f, 0)

is_sign_negative(f, v) == ~is_sign_positive(f, v)

\* classify reading the mantissa through ABS_MASK instead of MANT_MASK.
classify_abs_mant(f, v) ==
    LET exp  == BitAnd(v, Masks[f].EXP_MASK)
        mant == BitAnd(v, Masks[f].ABS_MASK)
    IN  IF exp = Lit(f, 0) /\ mant = Lit(f, 0) THEN "Zero"
        ELSE IF exp = Lit(f, 0) THEN "Subnormal"
        ELSE IF exp = Masks[f].EXP_MASK /\ mant = Lit(f, 0) THEN "Infinite"
        ELSE IF exp = Masks[f].EXP_MASK THEN "Nan"
        ELSE "Normal"

classify(f, v) ==
    LET exp  == BitAnd(v, Masks[f].EXP_MASK)
        mant == BitAnd(v, Masks[f].MANT_MASK)
    IN  IF exp = Lit(f, 0) /\ mant = Lit(f, 0) THEN "Zero"
        ELSE IF exp = Lit(f, 0) THEN "Subnormal"
        ELSE IF exp = Masks[f].EXP_MASK /\ mant = Lit(f, 0) THEN "Infinite"
        ELSE IF exp = Masks[f].EXP_MASK THEN "Nan"
        ELSE "Normal"

\* helpers.rs
h_is_zero(category) == category = "Zero"

h_is_subnormal(category) == category = "Subnormal"

h_is_normal(category) == category = "Normal"

h_is_infinite(category) == category = "Infinite"

h_is_nan(category) == category = "Nan"

h_is_finite(category) == category \in {"Zero", "Subnormal", "Normal"}

is_zero(f, v) == h_is_zero(classify(f, v))

is_subnormal(f, v) == h_is_subnormal(classify(f, v))

is_normal(f, v) == h_is_normal(classify(f, v))

is_infinite(f, v) == h_is_infinite(classify(f, v))

is_nan(f, v) == h_is_nan(classify(f, v))

is_finite(f, v) == h_is_finite(classify(f, v))

\* signum returning a zero unchanged, as a numeric signum does.
signum_keep_zero(f, v) ==
    IF is_nan(f, v) \/ is_zero(f, v) THEN v
    ELSE IF is_sign_negative(f, v) THEN Named[f].NEG_ONE
    ELSE Named[f].ONE

signum(f, v) ==
    IF is_nan(f, v) THEN v
    ELSE IF is_sign_negative(f, v) THEN Named[f].NEG_ONE
    ELSE Named[f].ONE

(***************************************************************************)
(* Total order and clamp.                                                  *)
(***************************************************************************)
\* sort_bits without the XOR: the raw word read as a signed integer.
sort_bits_raw(f, v) == AsSigned(v)

\* sort_bits flipping every bit of a negative value, the sign bit too.
sort_bits_flip_all(f, v) ==
    LET mask == IF is_sign_negative(f, v) THEN UMax(f) ELSE Lit(f, 0)
    IN  AsSigned(BitXor(v, mask))

sort_bits(f, v) ==
    LET mask == IF is_sign_negative(f, v) THEN Masks[f].ABS_MASK ELSE Lit(f, 0)
        bits == BitXor(v, mask)
    IN  AsSigned(bits)

total_cmp(f, x, y) ==
    LET lhs == sort_bits(f, x)
        rhs == sort_bits(f, y)
    IN  IF lhs = rhs THEN "Equal"
        ELSE IF SLt(lhs, rhs) THEN "Less"
        ELSE "Greater"

\* Ord::cmp
cmp(f, x, y) == total_cmp(f, x, y)

\* The two ways a call ends: panic!(msg), or a returned value.
Panic(msg) == [panicked |-> TRUE, msg |-> msg, value |-> <<>>]

Return(v) == [panicked |-> FALSE, msg |-> "", value |-> v]

\* clamp testing self for NaN before it validates the bounds.
clamp_self_first(f, x, min, max) ==
    IF is_nan(f, x) THEN Return(x)
    ELSE IF is_nan(f, min) THEN Panic("min is NaN")
    ELSE IF is_nan(f, max) THEN Panic("max is NaN")
    ELSE IF total_cmp(f, min, max) = "Greater" THEN Panic("min > max")
    ELSE IF total_cmp(f, x, min) = "Less" THEN Return(min)
    ELSE IF total_cmp(f, x, max) = "Greater" THEN Return(max)
    ELSE Return(x)

\* clamp treating a signed zero at the lower bound as equal to it, as a
\* native float comparison would.
clamp_native_zero(f, x, min, max) ==
    IF is_nan(f, min) THEN Panic("min is NaN")
    ELSE IF is_nan(f, max) THEN Panic("max is NaN")
    ELSE IF total_cmp(f, min, max) = "Greater" THEN Panic("min > max")
    ELSE IF is_nan(f, x) THEN Return(x)
    ELSE IF is_zero(f, x) /\ is_zero(f, min) THEN Return(x)
    ELSE IF total_cmp(f, x, min) = "Less" THEN Return(min)
    ELSE IF total_cmp(f, x, max) = "Greater" THEN Return(max)
    ELSE Return(x)

clamp(f, x, min, max) ==
    IF is_nan(f, min) THEN Panic("min is NaN")
    ELSE IF is_nan(f, max) THEN Panic("max is NaN")
    ELSE IF total_cmp(f, min, max) = "Greater" THEN Panic("min > max")
    ELSE IF is_nan(f, x) THEN Return(x)
    ELSE IF total_cmp(f, x, min) = "Less" THEN Return(min)
    ELSE IF total_cmp(f, x, max) = "Greater" THEN Return(max)
    ELSE Return(x)

(***************************************************************************)
(* Operands.  A field of width w is drawn from the patterns                *)
(*     h f f ... f g ... g                                                 *)
(* with a free top bit h, a filling bit f and a run of at most `run` low   *)
(* bits g = 1 - f: all zeros, all ones, 1, the bias 01..1, 10..0, 1..10,   *)
(* 0..011, and so on.  A value is a sign bit, an exponent pattern and a    *)
(* mantissa pattern, so every category, both signs, both kinds of NaN and  *)
(* the least and greatest member of each are among the operands.           *)
(***************************************************************************)
\* Longest low run in the fields of a one-operand call.
UnaryRun == 2

\* Longest low run in the mantissa of the operands of a two-operand call.
PairRun == 1

Fill(w, hi, fill, j) ==
    [i \in 1..w |-> IF i = 1 THEN hi ELSE IF i > w - j THEN 1 - fill ELSE fill]

Pat(w, run) == { Fill(w, hi, fill, j) : hi \in Bit, fill \in Bit, j \in 0..run }

Vals(f, erun, mrun) ==
    { <<s>> \o e \o m : s \in Bit,
                        e \in Pat(EXP_BITS(f), erun),
                        m \in Pat(MANTISSA_BITS(f), mrun) }

Calls1(f) == { <<x>> : x \in Vals(f, UnaryRun, UnaryRun) }

Calls2(f) == { <<x, y>> : x \in Vals(f, 1, PairRun), y \in Vals(f, 1, PairRun) }

\* Three-operand calls take the corner patterns alone (no low run): 32
\* values per format, every category, sign and kind of NaN among them.
Calls3(f) ==
    { <<x, y, z>> : x \in Vals(f, 0, 0), y \in Vals(f, 0, 0), z \in Vals(f, 0, 0) }

a == args[1]

b == args[2]

c == args[3]

(***************************************************************************)
(* The state machine: a call is set up with its operands, then one         *)
(* operation of matching arity runs and leaves its result.                 *)
(***************************************************************************)
Init1 ==
    /\ fmt \in Formats
    /\ args \in Calls1(fmt)
    /\ op = "none"
    /\ res = "none"

Init2 ==
    /\ fmt \in Formats
    /\ args \in Calls2(fmt)
    /\ op = "none"
    /\ res = "none"

Init3 ==
    /\ fmt \in Formats
    /\ args \in Calls3(fmt)
    /\ op = "none"
    /\ res = "none"

Init == Init1 \/ Init2 \/ Init3

Ran(n, name, result) ==
    /\ op = "none"
    /\ Len(args) = n
    /\ op' = name
    /\ res' = result
    /\ UNCHANGED <<fmt, args>>

LoadConst == \E n \in ConstNames :
    Ran(1, "const", [name |-> n, value |-> Named[fmt][n]])

IsSignPositive == Ran(1, "is_sign_positive", is_sign_positive(fmt, a))

IsSignNegative == Ran(1, "is_sign_negative", is_sign_negative(fmt, a))

Classify == Ran(1, "classify", classify(fmt, a))

IsZero == Ran(1, "is_zero", is_zero(fmt, a))

IsSubnormal == Ran(1, "is_subnormal", is_subnormal(fmt, a))

IsNormal == Ran(1, "is_normal", is_normal(fmt, a))

IsInfinite == Ran(1, "is_infinite", is_infinite(fmt, a))

IsNan == Ran(1, "is_nan", is_nan(fmt, a))

IsFinite == Ran(1, "is_finite", is_finite(fmt, a))

Abs == Ran(1, "abs", abs(fmt, a))

Neg == Ran(1, "neg", neg(fmt, a))

Signum == Ran(1, "signum", signum(fmt, a))

Copysign == Ran(2, "copysign", copysign(fmt, a, b))

TotalCmp == Ran(2, "total_cmp", total_cmp(fmt, a, b))

\* Ord::cmp on the three pairs of a triple, as a sort makes them.
Cmp == Ran(3, "cmp", [ab |-> cmp(fmt, a, b), bc |-> cmp(fmt, b, c),
                       ac |-> cmp(fmt, a, c)])

Clamp == Ran(3, "clamp", clamp(fmt, a, b, c))

Next1 ==
    \/ LoadConst
    \/ IsSignPositive
    \/ IsSignNegative
    \/ Classify
    \/ IsZero
    \/ IsSubnormal
    \/ IsNormal
    \/ IsInfinite
    \/ IsNan
    \/ IsFinite
    \/ Abs
    \/ Neg
    \/ Signum

Next2 == Copysign \/ TotalCmp

Next3 == Cmp \/ Clamp

Next == Next1 \/ Next2 \/ Next3

\* Calls of one operand, of two and of three, and all of them.
Spec1 == Init1 /\ [][Next1]_vars

Spec2 == Init2 /\ [][Next2]_vars

Spec3 == Init3 /\ [][Next3]_vars

\* The comparisons alone, on pairs and on triples.
InitCmp == Init2 \/ Init3

NextCmp == TotalCmp \/ Cmp

SpecCmp == InitCmp /\ [][NextCmp]_vars

\* clamp alone.
SpecClamp == Init3 /\ [][Clamp]_vars

\* The operations that set or copy the sign.
InitSign == Init1 \/ Init2

NextSign == Abs \/ Neg \/ Copysign

SpecSign == InitSign /\ [][NextSign]_vars

Spec == Init /\ [][Next]_vars

(***************************************************************************)
(* Native floats (define_mid!).  $ty is #[repr(transparent)] over its one  *)
(* field, so a value is the word it wraps and from_bits / to_bits move     *)
(* that word in and out.  A native float is not a word: it is kept as the  *)
(* triple <<sign, exponent, fraction>> of its IEEE 754 interchange format, *)
(* and the core library's to_bits / from_bits pack and unpack it.          *)
(* In the default build F32 and F64 have a native float; F16 and F128 get  *)
(* one only under the features "f16" and "f128".                           *)
(***************************************************************************)
HasFloat == {"F32", "F64"}

FloatType(f) ==
    CASE f = "F32" -> "f32"
      [] f = "F64" -> "f64"

\* Width of the exponent of the native type.
NativeExpBits(t) ==
    CASE t = "f32" -> 8
      [] t = "f64" -> 11

\* Width of the native type.
NativeBits(t) ==
    CASE t = "f32" -> 32
      [] t = "f64" -> 64

\* <$f_ty>::to_bits
NativeToBits(x) == <<x[1]>> \o x[2] \o x[3]

\* <$f_ty>::from_bits
NativeFromBits(t, w) ==
    <<w[1],
      SubSeq(w, 2, 1 + NativeExpBits(t)),
      SubSeq(w, 2 + NativeExpBits(t), NativeBits(t))>>

\* from_float going through the value of the float: every NaN becomes the
\* one NaN constant.
from_float_by_value(f, float) ==
    IF AllOnesSeq(float[2]) /\ ~AllZeroSeq(float[3]) THEN Named[f].QNAN
    ELSE from_bits(NativeToBits(float))

from_float(f, float) == from_bits(NativeToBits(float))

to_float(f, v) == NativeFromBits(FloatType(f), v)

\* The native floats a call is made with: as for the words, a sign, an
\* exponent pattern and a fraction pattern.
Floats(f) ==
    { <<s, e, m>> : s \in Bit,
                    e \in Pat(NativeExpBits(FloatType(f)), UnaryRun),
                    m \in Pat(NativeBits(FloatType(f))
                                - NativeExpBits(FloatType(f)) - 1, UnaryRun) }

\* A native float is a triple, a word has at least 16 bits.
IsFloat(x) == Len(x) = Len(<<0, 0, 0>>)

InitFloat ==
    /\ fmt \in HasFloat
    /\ args \in { <<x>> : x \in Floats(fmt) }
    /\ op = "none"
    /\ res = "none"

FromBits == ~IsFloat(a) /\ Ran(1, "from_bits", from_bits(a))

ToBits == ~IsFloat(a) /\ Ran(1, "to_bits", to_bits(a))

FromFloat == IsFloat(a) /\ Ran(1, "from_float", from_float(fmt, a))

ToFloat ==
    /\ fmt \in HasFloat
    /\ ~IsFloat(a)
    /\ Ran(1, "to_float", to_float(fmt, a))

InitBits == Init1 \/ InitFloat

NextBits == FromBits \/ ToBits \/ FromFloat \/ ToFloat

\* The conversions between words, values and native floats.
SpecBits == InitBits /\ [][NextBits]_vars

(***************************************************************************)
(* The private masks by name, each as its `const` item derives it.         *)
(***************************************************************************)
MaskNames == {"ABS_MASK", "SIGN_MASK", "EXP_MASK", "MANT_MASK", "QUIET_MASK"}

Mask(f, n) ==
    CASE n = "ABS_MASK"   -> ABS_MASK(f)
      [] n = "SIGN_MASK"  -> SIGN_MASK(f)
      [] n = "EXP_MASK"   -> EXP_MASK(f)
      [] n = "MANT_MASK"  -> MANT_MASK(f)
      [] n = "QUIET_MASK" -> QUIET_MASK(f)

LoadMask == \E n \in MaskNames :
    Ran(1, "mask", [name |-> n, value |-> Mask(fmt, n)])

\* The masks alone.
SpecMasks == Init1 /\ [][LoadMask]_vars

(***************************************************************************)
(* The layout read bit by bit, without the masks: what the properties      *)
(* below compare the operations with.                                      *)
(***************************************************************************)
SignBit(v) == v[1]

ExpField(f, v) == SubSeq(v, 2, 1 + EXP_BITS(f))

MantField(f, v) == SubSeq(v, 2 + EXP_BITS(f), BITS(f))

AllZero(s) == \A i \in 1..Len(s) : s[i] = 0

AllOnes(s) == \A i \in 1..Len(s) : s[i] = 1

\* The category of the table in the data model's description.
FieldCategory(f, v) ==
    LET E == ExpField(f, v)
        M == MantField(f, v)
    IN  IF AllZero(E) /\ AllZero(M) THEN "Zero"
        ELSE IF AllZero(E) THEN "Subnormal"
        ELSE IF AllOnes(E) /\ AllZero(M) THEN "Infinite"
        ELSE IF AllOnes(E) THEN "Nan"
        ELSE "Normal"

\* A NaN is quiet when the most significant bit of its mantissa is 1.
IsQuiet(f, v) == MantField(f, v)[1] = 1

\* The place of a value in the totalOrder sequence, from negative quiet
\* NaN (-6) to positive quiet NaN (6).
Rank(f, v) ==
    LET cat == classify(f, v)
        m   == CASE cat = "Zero"      -> 1
                 [] cat = "Subnormal" -> 2
                 [] cat = "Normal"    -> 3
                 [] cat = "Infinite"  -> 4
                 [] cat = "Nan"       -> IF IsQuiet(f, v) THEN 6 ELSE 5
    IN  IF is_sign_negative(f, v) THEN 0 - m ELSE m

\* The pairs the ordering scenario names.
NamedLess(f) ==
    { <<Named[f].NEG_QNAN, Named[f].NEG_SNAN>>,
      <<Named[f].NEG_SNAN, Named[f].NEG_INFINITY>>,
      <<Named[f].NEG_ZERO, Named[f].ZERO>>,
      <<Named[f].ZERO, Named[f].MIN_POSITIVE>>,
      <<Named[f].SNAN, Named[f].QNAN>> }

(***************************************************************************)
(* C1: total_cmp follows the totalOrder sequence: a value of lower rank    *)
(* (sign, category, quiet bit) compares Less than one of higher rank, and  *)
(* the other way round Greater; the five named pairs compare Less.         *)
(***************************************************************************)
C1_RankOrder ==
    op = "total_cmp" =>
        /\ Rank(fmt, a) < Rank(fmt, b) =>
               res = "Less" /\ total_cmp(fmt, b, a) = "Greater"
        /\ args \in NamedLess(fmt) => res = "Less"

C1_Witness ==
    /\ op = "total_cmp"
    /\ a = Named[fmt].NEG_QNAN
    /\ b = Named[fmt].NEG_SNAN
    /\ Rank(fmt, a) = 0 - 6
    /\ Rank(fmt, b) = 0 - 5
    /\ res = "Less"

(***************************************************************************)
(* C2: total_cmp is a strict total order on bit patterns: Equal exactly    *)
(* for identical bits, Less one way exactly when Greater the other way,    *)
(* transitive; Ord::cmp agrees with the derived bitwise equality.          *)
(***************************************************************************)
C2_StrictTotalOrder ==
    /\ op = "total_cmp" =>
           /\ (res = "Equal") <=> (a = b)
           /\ (res = "Less") <=> (total_cmp(fmt, b, a) = "Greater")
           /\ (res = "Greater") <=> (total_cmp(fmt, b, a) = "Less")
           /\ (cmp(fmt, a, b) = "Equal") <=> (a = b)
    /\ op = "cmp" =>
           /\ (res.ab = "Equal") <=> (a = b)
           /\ (res.ab = "Less" /\ res.bc = "Less") => res.ac = "Less"

C2_Witness ==
    /\ op = "cmp"
    /\ is_nan(fmt, a) /\ is_sign_negative(fmt, a)
    /\ b = Named[fmt].NEG_ZERO
    /\ c = Named[fmt].ZERO
    /\ res = [ab |-> "Less", bc |-> "Less", ac |-> "Less"]

(***************************************************************************)
(* C3: classify returns the category the exponent and mantissa fields      *)
(* determine, whatever the sign; each is_* predicate is true exactly for   *)
(* its category, so exactly one of the five holds; is_finite is true       *)
(* exactly for Zero, Subnormal and Normal.                                 *)
(***************************************************************************)
TruePredicates(f, v) ==
    { p \in {"Zero", "Subnormal", "Normal", "Infinite", "Nan"} :
        CASE p = "Zero"      -> is_zero(f, v)
          [] p = "Subnormal" -> is_subnormal(f, v)
          [] p = "Normal"    -> is_normal(f, v)
          [] p = "Infinite"  -> is_infinite(f, v)
          [] p = "Nan"       -> is_nan(f, v) }

C3_Classify ==
    /\ op = "classify" =>
           /\ res = FieldCategory(fmt, a)
           /\ TruePredicates(fmt, a) = {res}
    /\ op = "is_zero" => res = (FieldCategory(fmt, a) = "Zero")
    /\ op = "is_subnormal" => res = (FieldCategory(fmt, a) = "Subnormal")
    /\ op = "is_normal" => res = (FieldCategory(fmt, a) = "Normal")
    /\ op = "is_infinite" => res = (FieldCategory(fmt, a) = "Infinite")
    /\ op = "is_nan" => res = (FieldCategory(fmt, a) = "Nan")
    /\ op = "is_finite" =>
           res = (FieldCategory(fmt, a) \in {"Zero", "Subnormal", "Normal"})

C3_Witness ==
    /\ op = "classify"
    /\ SignBit(a) = 1
    /\ AllZero(ExpField(fmt, a))
    /\ ~AllZero(MantField(fmt, a))
    /\ res = "Subnormal"

(***************************************************************************)
(* C4: clamp panics, whatever self is (a NaN too), when min is a NaN, when *)
(* max is a NaN, or when min orders after max under total_cmp, as +0.0     *)
(* does after -0.0.                                                        *)
(***************************************************************************)
C4_ClampPanics ==
    op = "clamp" =>
        /\ ( \/ FieldCategory(fmt, b) = "Nan"
             \/ FieldCategory(fmt, c) = "Nan"
             \/ total_cmp(fmt, b, c) = "Greater" ) => res.panicked
        /\ (b = Named[fmt].ZERO /\ c = Named[fmt].NEG_ZERO) => res.panicked

C4_Witness ==
    /\ op = "clamp"
    /\ FieldCategory(fmt, a) = "Nan"
    /\ b = Named[fmt].ZERO
    /\ c = Named[fmt].NEG_ZERO
    /\ res.panicked

(***************************************************************************)
(* C5: with bounds that are no NaN and min not after max, clamp does not   *)
(* panic and returns self if self is a NaN, else min if self is Less than  *)
(* min, else max if self is Greater than max, else self; the signed zeros  *)
(* are told apart, so clamp(-0.0, +0.0, max) is +0.0.                      *)
(***************************************************************************)
C5_ClampValue ==
    ( /\ op = "clamp"
      /\ FieldCategory(fmt, b) # "Nan"
      /\ FieldCategory(fmt, c) # "Nan"
      /\ total_cmp(fmt, b, c) # "Greater" ) =>
        /\ ~res.panicked
        /\ res.value =
               IF FieldCategory(fmt, a) = "Nan" THEN a
               ELSE IF total_cmp(fmt, a, b) = "Less" THEN b
               ELSE IF total_cmp(fmt, a, c) = "Greater" THEN c
               ELSE a
        /\ (a = Named[fmt].NEG_ZERO /\ b = Named[fmt].ZERO) =>
               res.value = Named[fmt].ZERO

C5_Witness ==
    /\ op = "clamp"
    /\ a = Named[fmt].NEG_ZERO
    /\ b = Named[fmt].ZERO
    /\ FieldCategory(fmt, c) = "Infinite"
    /\ res = Return(Named[fmt].ZERO)

(***************************************************************************)
(* C6: the named constants have the expected sign, exponent field and      *)
(* mantissa field in every format, and the bit patterns the smoke tests    *)
(* assert for F32 and F64.                                                 *)
(***************************************************************************)
RECURSIVE ToNat(_)
ToNat(s) == IF s = <<>> THEN 0 ELSE 2 * ToNat(SubSeq(s, 1, Len(s) - 1)) + s[Len(s)]

RECURSIVE Pow2(_)
Pow2(n) == IF n = 0 THEN 1 ELSE 2 * Pow2(n - 1)

\* Only the last bit set; only the first and the last bit set.
IsOne(s) == \A i \in 1..Len(s) : s[i] = IF i = Len(s) THEN 1 ELSE 0

IsTopPlusOne(s) == \A i \in 1..Len(s) : s[i] = IF i \in {1, Len(s)} THEN 1 ELSE 0

Positive(n) ==
    CASE n \in {"ZERO", "NEG_ZERO"}                 -> "ZERO"
      [] n \in {"ONE", "NEG_ONE"}                   -> "ONE"
      [] n \in {"MIN_POSITIVE", "MAX_NEGATIVE"}     -> "MIN_POSITIVE"
      [] n \in {"MAX", "MIN"}                       -> "MAX"
      [] n \in {"INFINITY", "NEG_INFINITY"}         -> "INFINITY"
      [] n \in {"SNAN", "NEG_SNAN"}                 -> "SNAN"
      [] n \in {"QNAN", "NEG_QNAN"}                 -> "QNAN"

ExpectedFields(f, n, v) ==
    LET e == EXP_BITS(f)
        E == ToNat(ExpField(f, v))
        M == MantField(f, v)
        p == Positive(n)
    IN  /\ Len(v) = BITS(f)
        /\ SignBit(v) = IF p = n THEN 0 ELSE 1
        /\ CASE p = "ZERO"         -> E = 0 /\ AllZero(M)
             [] p = "ONE"          -> E = Pow2(e - 1) - 1 /\ AllZero(M)
             [] p = "MIN_POSITIVE" -> E = 1 /\ AllZero(M)
             [] p = "MAX"          -> E = Pow2(e) - 2 /\ AllOnes(M)
             [] p = "INFINITY"     -> E = Pow2(e) - 1 /\ AllZero(M)
             [] p = "SNAN"         -> E = Pow2(e) - 1 /\ IsOne(M)
             [] p = "QNAN"         -> E = Pow2(e) - 1 /\ IsTopPlusOne(M)

HexDigit(d) == <<(d \div 8) % 2, (d \div 4) % 2, (d \div 2) % 2, d % 2>>

RECURSIVE Hex(_)
Hex(ds) == IF ds = <<>> THEN <<>> ELSE HexDigit(Head(ds)) \o Hex(Tail(ds))

\* The leading hexadecimal digits of each constant in the smoke tests, and
\* the digit that repeats after them up to the last digit.
HexHead32 ==
    [ZERO         |-> <<0, 0, 0>>,   NEG_ZERO     |-> <<8, 0, 0>>,
     MIN_POSITIVE |-> <<0, 0, 8>>,   MAX_NEGATIVE |-> <<8, 0, 8>>,
     ONE          |-> <<3, 15, 8>>,  NEG_ONE      |-> <<11, 15, 8>>,
     MAX          |-> <<7, 15, 7>>,  MIN          |-> <<15, 15, 7>>,
     INFINITY     |-> <<7, 15, 8>>,  NEG_INFINITY |-> <<15, 15, 8>>,
     SNAN         |-> <<7, 15, 8>>,  NEG_SNAN     |-> <<15, 15, 8>>,
     QNAN         |-> <<7, 15, 12>>, NEG_QNAN     |-> <<15, 15, 12>>]

HexHead64 ==
    [ZERO         |-> <<0, 0, 0, 0>>,   NEG_ZERO     |-> <<8, 0, 0, 0>>,
     MIN_POSITIVE |-> <<0, 0, 1, 0>>,   MAX_NEGATIVE |-> <<8, 0, 1, 0>>,
     ONE          |-> <<3, 15, 15, 0>>, NEG_ONE      |-> <<11, 15, 15, 0>>,
     MAX          |-> <<7, 15, 14, 15>>, MIN         |-> <<15, 15, 14, 15>>,
     INFINITY     |-> <<7, 15, 15, 0>>, NEG_INFINITY |-> <<15, 15, 15, 0>>,
     SNAN         |-> <<7, 15, 15, 0>>, NEG_SNAN     |-> <<15, 15, 15, 0>>,
     QNAN         |-> <<7, 15, 15, 8>>, NEG_QNAN     |-> <<15, 15, 15, 8>>]

HexTail(n, len) ==
    LET p   == Positive(n)
        rep == IF p = "MAX" THEN 15 ELSE 0
        lst == IF p \in {"SNAN", "QNAN"} THEN 1 ELSE rep
    IN  [i \in 1..len |-> IF i = len THEN lst ELSE rep]

TestBits(f, n) ==
    IF f = "F32" THEN Hex(HexHead32[n] \o HexTail(n, 5))
    ELSE Hex(HexHead64[n] \o HexTail(n, 12))

C6_NamedConstants ==
    op = "const" =>
        /\ ExpectedFields(fmt, res.name, res.value)
        /\ fmt \in {"F32", "F64"} => res.value = TestBits(fmt, res.name)

C6_Witness ==
    /\ op = "const"
    /\ fmt = "F32"
    /\ res.name = "NEG_QNAN"
    /\ res.value = Hex(<<15, 15, 12, 0, 0, 0, 0, 1>>)

(***************************************************************************)
(* C7: MAX, MIN, MIN_POSITIVE and MAX_NEGATIVE are Normal; no finite value *)
(* is below MIN or above MAX; no positive Normal is below MIN_POSITIVE, no *)
(* negative Normal above MAX_NEGATIVE; what lies strictly between          *)
(* MAX_NEGATIVE and MIN_POSITIVE is Zero or Subnormal.                     *)
(***************************************************************************)
C7_Extremal ==
    op = "total_cmp" =>
        /\ \A n \in {"MAX", "MIN", "MIN_POSITIVE", "MAX_NEGATIVE"} :
               FieldCategory(fmt, Named[fmt][n]) = "Normal"
        /\ (a = Named[fmt].MIN /\ is_finite(fmt, b)) => res # "Greater"
        /\ (b = Named[fmt].MAX /\ is_finite(fmt, a)) => res # "Greater"
        /\ (a = Named[fmt].MIN_POSITIVE /\ is_normal(fmt, b)
                /\ is_sign_positive(fmt, b)) => res # "Greater"
        /\ (b = Named[fmt].MAX_NEGATIVE /\ is_normal(fmt, a)
                /\ is_sign_negative(fmt, a)) => res # "Greater"
        /\ (a = Named[fmt].MAX_NEGATIVE /\ res = "Less"
                /\ total_cmp(fmt, b, Named[fmt].MIN_POSITIVE) = "Less") =>
               classify(fmt, b) \in {"Zero", "Subnormal"}

C7_Witness ==
    /\ op = "total_cmp"
    /\ a = Named[fmt].MAX_NEGATIVE
    /\ res = "Less"
    /\ total_cmp(fmt, b, Named[fmt].MIN_POSITIVE) = "Less"
    /\ classify(fmt, b) = "Subnormal"
    /\ AllOnes(MantField(fmt, b))

(***************************************************************************)
(* C8: signum returns a NaN unchanged, and otherwise ONE for a clear sign  *)
(* bit and NEG_ONE for a set one, zeros and infinities included; it never  *)
(* returns a zero.                                                         *)
(***************************************************************************)
C8_Signum ==
    op = "signum" =>
        /\ res = IF FieldCategory(fmt, a) = "Nan" THEN a
                 ELSE IF SignBit(a) = 0 THEN Named[fmt].ONE
                 ELSE Named[fmt].NEG_ONE
        /\ a = Named[fmt].ZERO => res = Named[fmt].ONE
        /\ a = Named[fmt].NEG_ZERO => res = Named[fmt].NEG_ONE
        /\ a = Named[fmt].INFINITY => res = Named[fmt].ONE
        /\ a = Named[fmt].NEG_INFINITY => res = Named[fmt].NEG_ONE
        /\ FieldCategory(fmt, res) # "Zero"

C8_Witness ==
    /\ op = "signum"
    /\ a = Named[fmt].NEG_ZERO
    /\ res = Named[fmt].NEG_ONE
    /\ ExpectedFields(fmt, "NEG_ONE", res)

(***************************************************************************)
(* C9: abs(v) is v with the sign bit cleared and reports a positive sign;  *)
(* copysign(v, s) has the exponent and mantissa of v and the sign bit of   *)
(* s, for every pattern; copysign(v, v) = v, copysign(v, ZERO) = abs(v).   *)
(***************************************************************************)
C9_SignOps ==
    /\ op = "abs" =>
           /\ is_sign_positive(fmt, res)
           /\ res = [a EXCEPT ![1] = 0]
    /\ op = "copysign" =>
           /\ res = [a EXCEPT ![1] = SignBit(b)]
           /\ a = b => res = a
           /\ b = Named[fmt].ZERO => res = abs(fmt, a)

C9_Witness ==
    /\ op = "copysign"
    /\ FieldCategory(fmt, a) = "Nan"
    /\ SignBit(a) = 1
    /\ b = Named[fmt].ZERO
    /\ res = abs(fmt, a)
    /\ SignBit(res) = 0

(***************************************************************************)
(* C10: neg undoes itself and changes the sign bit and nothing else, so    *)
(* neg(v) is never v; abs applied twice is abs applied once.               *)
(***************************************************************************)
C10_NegAbs ==
    /\ op = "neg" =>
           /\ neg(fmt, res) = a
           /\ res = [a EXCEPT ![1] = 1 - SignBit(a)]
           /\ res # a
    /\ op = "abs" => abs(fmt, res) = res

C10_Witness ==
    /\ op = "neg"
    /\ FieldCategory(fmt, a) = "Nan"
    /\ IsQuiet(fmt, a)
    /\ SignBit(a) = 1
    /\ SignBit(res) = 0
    /\ neg(fmt, res) = a

(***************************************************************************)
(* C11: the conversions lose nothing.  to_bits returns the word from_bits  *)
(* was given and from_bits rebuilds the value to_bits was taken from, for  *)
(* every pattern; for F32 and F64, from_float yields exactly the bits of   *)
(* the float (sign, exponent, fraction, NaN payloads and signed zeros      *)
(* included) and to_float gives the float back, and the other way round.   *)
(***************************************************************************)
C11_RoundTrips ==
    /\ op = "from_bits" => to_bits(res) = a
    /\ op = "to_bits" => from_bits(res) = a
    /\ op = "from_float" =>
           /\ Len(to_bits(res)) = BITS(fmt)
           /\ SignBit(to_bits(res)) = a[1]
           /\ ExpField(fmt, to_bits(res)) = a[2]
           /\ MantField(fmt, to_bits(res)) = a[3]
           /\ to_float(fmt, res) = a
    /\ op = "to_float" =>
           /\ res = <<SignBit(a), ExpField(fmt, a), MantField(fmt, a)>>
           /\ from_float(fmt, res) = a

C11_Witness ==
    /\ op = "from_float"
    /\ a[1] = 1
    /\ AllOnes(a[2])
    /\ IsOne(a[3])
    /\ res = Named[fmt].NEG_SNAN
    /\ to_float(fmt, res) = a

(***************************************************************************)
(* C12: as the doc comment of is_infinite has it, is_infinite returns true *)
(* for a subnormal number (exponent field all zeros, mantissa not zero).   *)
(* The method returns helpers::is_infinite(classify()), which is false     *)
(* there: the comment repeats the one of is_subnormal.                     *)
(***************************************************************************)
C12_InfiniteOnSubnormal ==
    ( /\ op = "is_infinite"
      /\ AllZero(ExpField(fmt, a))
      /\ ~AllZero(MantField(fmt, a)) ) => res = TRUE

(***************************************************************************)
(* C13: in every format the masks lay out three fields that are disjoint   *)
(* and cover the word: SIGN_MASK is the top bit, EXP_MASK the next         *)
(* EXP_BITS bits, MANT_MASK the low BITS - EXP_BITS - 1 bits; ABS_MASK is  *)
(* EXP_MASK | MANT_MASK; QUIET_MASK is the top bit of MANT_MASK alone and  *)
(* is not 1, so SNAN and QNAN differ.                                      *)
(***************************************************************************)
\* The word of format f whose set bits are those at the places in S
\* (place 1 is the most significant).
OnlyBits(f, S) == [i \in 1..BITS(f) |-> IF i \in S THEN 1 ELSE 0]

C13_MaskLayout ==
    op = "mask" =>
        LET n == BITS(fmt)
            e == EXP_BITS(fmt)
            v == res.value
        IN  /\ res.name = "SIGN_MASK" => v = OnlyBits(fmt, {1})
            /\ res.name = "EXP_MASK" => v = OnlyBits(fmt, 2..(e + 1))
            /\ res.name = "MANT_MASK" =>
                   /\ v = OnlyBits(fmt, (e + 2)..n)
                   /\ v = OnlyBits(fmt, (n - MANTISSA_BITS(fmt) + 1)..n)
                   /\ BitAnd(v, SIGN_MASK(fmt)) = OnlyBits(fmt, {})
                   /\ BitAnd(v, EXP_MASK(fmt)) = OnlyBits(fmt, {})
                   /\ BitOr(BitOr(SIGN_MASK(fmt), EXP_MASK(fmt)), v)
                          = OnlyBits(fmt, 1..n)
            /\ res.name = "EXP_MASK" =>
                   BitAnd(v, SIGN_MASK(fmt)) = OnlyBits(fmt, {})
            /\ res.name = "ABS_MASK" =>
                   /\ v = BitOr(EXP_MASK(fmt), MANT_MASK(fmt))
                   /\ v = OnlyBits(fmt, 2..n)
            /\ res.name = "QUIET_MASK" =>
                   /\ v = OnlyBits(fmt, {e + 2})
                   /\ v # Lit(fmt, 1)
                   /\ SNAN(fmt) # QNAN(fmt)

C13_Witness ==
    /\ op = "mask"
    /\ fmt = "F128"
    /\ res.name = "QUIET_MASK"
    /\ res.value = OnlyBits(fmt, {17})
    /\ BitAnd(res.value, MANT_MASK(fmt)) = res.value

(***************************************************************************)
(* C14: the sort key of total_cmp is the word with every bit but the sign  *)
(* flipped when the sign is set, read as a signed integer, and comparing   *)
(* keys gives the sign-magnitude order: a negative value is Less than a    *)
(* positive one; two positive values compare as their words do, unsigned;  *)
(* two negative values compare as their magnitudes do, reversed.           *)
(***************************************************************************)
\* Unsigned order, stated by the first place where the words differ.
RefULt(x, y) ==
    \E i \in 1..Len(x) : /\ x[i] < y[i]
                         /\ \A j \in 1..(i - 1) : x[j] = y[j]

RefUCmp(x, y) ==
    IF x = y THEN "Equal" ELSE IF RefULt(x, y) THEN "Less" ELSE "Greater"

Magnitude(v) == SubSeq(v, 2, Len(v))

\* The key of v, bit by bit: -2^(n-1) times the sign, plus the magnitude
\* bits, inverted for a negative value.
RefKey(v) ==
    [top  |-> 0 - SignBit(v),
     rest |-> [i \in 1..(Len(v) - 1) |->
                  IF SignBit(v) = 1 THEN 1 - v[i + 1] ELSE v[i + 1]]]

C14_SortKey ==
    op = "total_cmp" =>
        /\ sort_bits(fmt, a) = RefKey(a)
        /\ sort_bits(fmt, b) = RefKey(b)
        /\ (SignBit(a) = 1 /\ SignBit(b) = 0) => res = "Less"
        /\ (SignBit(a) = 0 /\ SignBit(b) = 0) => res = RefUCmp(a, b)
        /\ (SignBit(a) = 1 /\ SignBit(b) = 1) =>
               res = RefUCmp(Magnitude(b), Magnitude(a))

C14_Witness ==
    /\ op = "total_cmp"
    /\ SignBit(a) = 1
    /\ SignBit(b) = 1
    /\ FieldCategory(fmt, a) = "Nan"
    /\ FieldCategory(fmt, b) = "Nan"
    /\ RefULt(Magnitude(b), Magnitude(a))
    /\ res = "Less"

====
